---------------------------- MODULE Spec2Model ----------------------------
(***************************************************************************)
(* A model of wsterm, a terminal ray caster (main.cpp, math.hpp,           *)
(* terminal.hpp).                                                          *)
(*                                                                         *)
(* Numbers.  The program computes in single precision floats.  The model   *)
(* keeps every float that the program stores (positions, direction         *)
(* vectors, texture coordinates) as a fixed-point integer counted in       *)
(* units of 1/Scale, and keeps every quotient the program forms (the       *)
(* distances along a ray, the projected wall height) as an exact fraction  *)
(* num/den, so that comparisons, signs, truncations and tests for zero     *)
(* are decided exactly and never by a rounding of the model.  Products of  *)
(* two stored floats are rounded to the nearest unit, as a float product   *)
(* is rounded to the nearest float.  A division by a zero float follows    *)
(* IEC 559, which is what std::abs(1.0f / dir) produces at run time: the   *)
(* quotient is infinite, written here as a fraction with den = 0.          *)
(***************************************************************************)
EXTENDS Integers, Sequences, FiniteSets, TLC

\* ------------------------------------------------------------------ bounds

\* the number of walk / strafe / turn key events handled in one run of SpecPlayer
MaxKeys == 9

\* the number of them that may be turn events
MaxTurns == 2

\* start positions of a cast lie on the multiples of 1/SubDiv of a cell
SubDiv == 2

\* the display widths and heights for which a frame is rendered
MaxWidth == 3

MaxHeight == 24

\* the wall distances handed to draw_column are 1/DistDen .. MaxDist/DistDen
DistDen == 4

MaxDist == 48

\* ------------------------------------------------------------------- state

VARIABLES
  pos,          \* player::pos_
  forward,      \* player::forward_
  right,        \* player::right_
  keys,         \* the number of key events handled so far
  turns,        \* the number of them that were turn events
  event         \* the last key event handled and the position it asked for

playerVars == <<pos, forward, right, keys, turns, event>>

VARIABLES
  ray_dir,      \* the direction draw_scene hands to compute_wall_hit
  x,            \* cast_ray's dda_coord x
  y,            \* cast_ray's dda_coord y
  is_x_step,    \* cast_ray's is_x_step
  cast_pc,      \* "off", "loop" (in cast_ray's while) or "done" (compute_wall_hit returned)
  iterations,   \* the number of iterations of cast_ray's loop so far
  path,         \* the cells cast_ray has looked up, in order
  hit           \* the wall_hit compute_wall_hit returned

castVars == <<ray_dir, x, y, is_x_step, cast_pc, iterations, path, hit>>

VARIABLES
  screen_height,  \* the display height render read from the terminal
  is_blocky,      \* main's is_blocky
  draw_pc,        \* "off", "ready" (before draw_column) or "drawn" (after it)
  writes          \* the print_char calls of the last draw_column: row, glyph, reversed

drawVars == <<screen_height, is_blocky, draw_pc, writes>>

vars == <<playerVars, castVars, drawVars>>

\* ---------------------------------------------------------- the number model

\* one unit of a stored float is 1/Scale
Scale == 1000

Abs(a) == IF a < 0 THEN -a ELSE a

Sign(a) == IF a < 0 THEN -1 ELSE IF a > 0 THEN 1 ELSE 0

\* a / b rounded to the nearest integer, halves away from zero (b > 0)
RoundDiv(a, b) == IF a >= 0 THEN (2 * a + b) \div (2 * b) ELSE -((2 * (-a) + b) \div (2 * b))

\* the product of two stored floats
FMul(a, b) == RoundDiv(a * b, Scale)

\* static_cast<int>(float): truncation toward zero
ToInt(a) == IF a >= 0 THEN a \div Scale ELSE -((-a) \div Scale)

\* ------------------------------------------------------------------ math.hpp

vec2(a, b) == [x |-> a, y |-> b]

\* operator+(vec2f, vec2f)
vadd(v0, v1) == vec2(v0.x + v1.x, v0.y + v1.y)

\* operator*(vec2f, float)
vscale(v, f) == vec2(FMul(v.x, f), FMul(v.y, f))

\* to_vec2i
to_vec2i(v) == vec2(ToInt(v.x), ToInt(v.y))

\* ------------------------------------------------------------------ the maze

maze_height == 20

maze_width == 21

\* the rows of the maze, 1 for '+' and 0 for ' ', row 0 first
maze ==
  << <<1,1,1,1,1,1,1,1,1,1,1,1,1,1,1,1,1,1,1,1,1>>,
     <<1,0,0,0,0,0,0,0,0,0,0,0,0,0,0,0,0,0,0,0,1>>,
     <<1,0,0,0,0,0,0,0,0,0,0,0,0,0,0,1,1,1,1,0,1>>,
     <<1,0,0,0,0,0,0,1,1,1,1,1,0,0,0,0,0,1,1,0,1>>,
     <<1,0,0,0,0,0,0,1,1,1,1,1,0,0,0,0,0,1,0,0,1>>,
     <<1,0,0,0,0,0,0,1,1,1,1,1,0,0,0,1,1,1,0,1,1>>,
     <<1,0,0,0,0,0,0,1,1,1,1,1,0,0,0,1,0,0,0,0,1>>,
     <<1,0,0,0,0,0,0,1,1,1,1,1,0,0,0,1,0,1,1,1,1>>,
     <<1,0,0,0,0,0,0,0,0,0,0,0,0,0,0,1,0,1,1,1,1>>,
     <<1,0,0,0,0,0,0,0,0,0,0,0,0,0,0,0,0,0,0,0,1>>,
     <<1,0,0,0,0,0,0,0,0,0,0,0,0,0,0,0,0,0,0,0,1>>,
     <<1,1,1,1,1,0,1,1,1,1,1,1,0,1,1,1,1,1,1,0,1>>,
     <<1,1,1,1,1,0,1,1,1,1,1,1,0,1,1,1,1,1,1,0,1>>,
     <<1,0,0,0,0,0,0,0,0,0,0,0,0,0,0,0,0,0,0,0,1>>,
     <<1,0,0,0,0,0,0,0,0,0,0,0,0,0,0,0,1,0,0,0,1>>,
     <<1,0,0,0,0,0,1,0,0,0,0,0,0,0,0,0,0,0,0,0,1>>,
     <<1,0,0,1,0,0,0,0,0,0,0,0,0,0,0,1,0,0,0,0,1>>,
     <<1,0,0,0,0,0,0,1,0,0,0,1,0,0,0,0,0,0,0,0,1>>,
     <<1,0,0,0,0,0,0,0,0,0,0,0,0,0,0,0,0,1,0,0,1>>,
     <<1,1,1,1,1,1,1,1,1,1,1,1,1,1,1,1,1,1,1,1,1>> >>

\* whether a cell index is one of the array (the program reads any index it is given)
in_maze(c) == c.x \in 0 .. maze_width - 1 /\ c.y \in 0 .. maze_height - 1

\* is_wall(const vec2i&)
is_wall_i(c) == maze[c.y + 1][c.x + 1] = 1

\* is_wall(const vec2f&)
is_wall(p) == is_wall_i(to_vec2i(p))


\* -------------------------------------------------------------- the player

\* run_speed = 0.5f
run_speed == 500

\* cos(turn_speed) and sin(turn_speed) for turn_speed = 0.1f
cos_turn == 995

sin_turn == 100

\* rotate(v, radians), for radians = factor * turn_speed and factor = +1 or -1
rotate(v, factor) ==
  LET c == cos_turn
      s == factor * sin_turn
  IN  vec2(FMul(v.x, c) - FMul(v.y, s), FMul(v.x, s) + FMul(v.y, c))

\* the members of a player{} as constructed
initial_pos == vec2(5 * Scale, 5 * Scale)

initial_forward == vec2(0, Scale)

initial_right == vec2(800, 0)

\* player::line_of_sight
line_of_sight(fwd, rgt, normalized_screen_x) ==
  LET increment == 2 * normalized_screen_x - Scale
  IN  vadd(fwd, vscale(rgt, increment))

\* the argument draw_scene gives line_of_sight for column i of a display W wide
normalized(i, W) == RoundDiv(i * Scale, W - 1)

\* player::move with the collision test changed: sliding along walls, and none
move_sliding(p, v) ==
  LET c == vadd(p, v)
  IN  IF ~is_wall(c) THEN c
      ELSE IF ~is_wall(vec2(c.x, p.y)) THEN vec2(c.x, p.y)
      ELSE IF ~is_wall(vec2(p.x, c.y)) THEN vec2(p.x, c.y)
      ELSE p

move_unchecked(p, v) == vadd(p, v)

\* player::move, as the position it leaves in pos_
move(p, v) ==
  LET c == vadd(p, v)
  IN  IF ~is_wall(c) THEN c ELSE p

\* the vector walk and strafe hand to move: dir * factor * run_speed
displacement(dir, factor) == vscale(vec2(dir.x * factor, dir.y * factor), run_speed)

\* event 'w' / 's': player::walk
Walk(factor) ==
  /\ keys < MaxKeys
  /\ pos' = move(pos, displacement(forward, factor))
  /\ event' = [key |-> "walk", candidate |-> vadd(pos, displacement(forward, factor))]
  /\ keys' = keys + 1
  /\ UNCHANGED <<forward, right, turns>>
  /\ UNCHANGED <<castVars, drawVars>>

\* event 'm' / 'n': player::strafe
Strafe(factor) ==
  /\ keys < MaxKeys
  /\ pos' = move(pos, displacement(right, factor))
  /\ event' = [key |-> "strafe", candidate |-> vadd(pos, displacement(right, factor))]
  /\ keys' = keys + 1
  /\ UNCHANGED <<forward, right, turns>>
  /\ UNCHANGED <<castVars, drawVars>>

\* event 'a' / 'd': player::turn
Turn(factor) ==
  /\ keys < MaxKeys
  /\ turns < MaxTurns
  /\ forward' = rotate(forward, factor)
  /\ right' = rotate(right, factor)
  /\ event' = [key |-> "turn", candidate |-> pos]
  /\ keys' = keys + 1
  /\ turns' = turns + 1
  /\ UNCHANGED pos
  /\ UNCHANGED <<castVars, drawVars>>

\* ------------------------------------------------------------ the ray caster

\* a quotient of two floats, kept exact; den = 0 is the infinite quotient
fraction(n, d) == [num |-> n, den |-> d]

\* a < b on floats
float_less(a, b) == a.den # 0 /\ (b.den = 0 \/ a.num * b.den < b.num * a.den)

\* struct dda_coord
dda_coord(g, d) == [on_grid |-> g, distance |-> d]

\* dda_coord::operator+= with the grid index left as it was
dda_add_distance_only(a, b) ==
  dda_coord(a.on_grid, fraction(a.distance.num + b.distance.num, a.distance.den))

\* dda_coord::operator+=
dda_add(a, b) ==
  dda_coord(a.on_grid + b.on_grid, fraction(a.distance.num + b.distance.num, a.distance.den))

\* initialize_dda_direction: the step
dda_step(dir) == dda_coord(IF dir < 0 THEN -1 ELSE 1, fraction(Scale, Abs(dir)))

\* initialize_dda_direction: the start
dda_start(p, dir) ==
  LET grid_pos == ToInt(p)
      aligned_edge_offset == IF dir < 0 THEN p - grid_pos * Scale
                                        ELSE grid_pos * Scale + Scale - p
  IN  dda_coord(grid_pos, fraction(aligned_edge_offset, Abs(dir)))

\* the cell cast_ray looks up
cell(cx, cy) == vec2(cx.on_grid, cy.on_grid)

\* struct wall_hit as constructed
no_hit == [distance |-> fraction(0, 1), tx |-> 0]

\* the choice cast_ray makes between an x step and a y step
x_is_nearer(cx, cy) == float_less(cx.distance, cy.distance)

\* one iteration of cast_ray's while loop
CastStep ==
  /\ cast_pc = "loop"
  /\ in_maze(cell(x, y)) => ~is_wall_i(cell(x, y))
  /\ is_x_step' = x_is_nearer(x, y)
  /\ IF x_is_nearer(x, y)
       THEN x' = dda_add(x, dda_step(ray_dir.x)) /\ y' = y
       ELSE y' = dda_add(y, dda_step(ray_dir.y)) /\ x' = x
  /\ iterations' = iterations + 1
  /\ path' = Append(path, cell(x', y'))
  /\ UNCHANGED <<ray_dir, cast_pc, hit>>
  /\ UNCHANGED <<playerVars, drawVars>>

\* compute_wall_hit without the correction for a step in the negative direction
wall_hit_of_far_face(p, dir, is_x, hit_pos) ==
  LET d == IF is_x THEN dir.x ELSE dir.y
      n == hit_pos * Scale - (IF is_x THEN p.x ELSE p.y)
      distance == fraction(Sign(d) * n, Abs(d))
      tx == IF distance.den = 0 THEN 0
            ELSE IF is_x THEN p.y + RoundDiv(distance.num * dir.y, distance.den)
                         ELSE p.x + RoundDiv(distance.num * dir.x, distance.den)
  IN  [distance |-> distance, tx |-> tx % Scale]

\* the rest of compute_wall_hit, from what cast_ray returned
wall_hit_of(p, dir, is_x, hit_pos) ==
  LET d == IF is_x THEN dir.x ELSE dir.y
      step == dda_step(d).on_grid
      n == hit_pos * Scale - (IF is_x THEN p.x ELSE p.y) + ((1 - step) \div 2) * Scale
      distance == fraction(Sign(d) * n, Abs(d))
      tx == IF distance.den = 0 THEN 0
            ELSE IF is_x THEN p.y + RoundDiv(distance.num * dir.y, distance.den)
                         ELSE p.x + RoundDiv(distance.num * dir.x, distance.den)
  IN  [distance |-> distance, tx |-> tx % Scale]

\* cast_ray's loop ends at a wall and compute_wall_hit returns
CastReturn ==
  /\ cast_pc = "loop"
  /\ in_maze(cell(x, y)) => is_wall_i(cell(x, y))
  /\ hit' = wall_hit_of(pos, ray_dir, is_x_step, IF is_x_step THEN x.on_grid ELSE y.on_grid)
  /\ cast_pc' = "done"
  /\ UNCHANGED <<ray_dir, x, y, is_x_step, iterations, path>>
  /\ UNCHANGED <<playerVars, drawVars>>

\* player::turn(1.0f), as the forward_ and right_ it leaves
turn_left(o) == [forward |-> rotate(o.forward, 1), right |-> rotate(o.right, 1)]

\* seven 'a' key events
turn_left_7(o) == turn_left(turn_left(turn_left(turn_left(turn_left(turn_left(turn_left(o)))))))

\* the orientations after 0, 7, 14, ... 63 'a' key events: a little more than a full circle
facing_0 == [forward |-> initial_forward, right |-> initial_right]

facing_7 == turn_left_7(facing_0)

facing_14 == turn_left_7(facing_7)

facing_21 == turn_left_7(facing_14)

facing_28 == turn_left_7(facing_21)

facing_35 == turn_left_7(facing_28)

facing_42 == turn_left_7(facing_35)

facing_49 == turn_left_7(facing_42)

facing_56 == turn_left_7(facing_49)

facing_63 == turn_left_7(facing_56)

\* the poses a cast is started from: an open cell, a point of it, an orientation
open_cells == {c \in [x : 0 .. maze_width - 1, y : 0 .. maze_height - 1] : ~is_wall_i(c)}

cast_positions ==
  {vec2(c.x * Scale + (i * Scale) \div SubDiv, c.y * Scale + (j * Scale) \div SubDiv) :
     c \in open_cells, i \in 0 .. SubDiv - 1, j \in 0 .. SubDiv - 1}

cast_orientations ==
  {facing_0, facing_7, facing_14, facing_21, facing_28, facing_35, facing_42, facing_49, facing_56, facing_63}

widths == 2 .. MaxWidth

\* the ray directions draw_scene casts for a pose
ray_dirs(fwd, rgt) ==
  {line_of_sight(fwd, rgt, normalized(c[1], c[2])) :
     c \in {d \in (0 .. MaxWidth - 1) \X widths : d[1] < d[2]}}

\* the unit directions along the grid axes, for which compute_wall_hit is called directly
axis_rays == {vec2(Scale, 0), vec2(-Scale, 0), vec2(0, Scale), vec2(0, -Scale)}

\* ------------------------------------------------------- the column renderer

Min(a, b) == IF a < b THEN a ELSE b

Max(a, b) == IF a > b THEN a ELSE b

\* a / b on ints, truncated toward zero (b > 0)
IntDiv(a, b) == IF a >= 0 THEN a \div b ELSE -((-a) \div b)

\* fractional_block's table of glyphs
chars == <<" ", "U+2581", "U+2582", "U+2583", "U+2584", "U+2585", "U+2586", "U+2587">>

\* static_cast<int>(x * (n - 1e-6f)) for a fraction x in [0, 1] whose denominator is far
\* below 10^6: the product falls short of n * x by less than 10^-6 of it, so its integer
\* part is that of n * x, except one less where n * x is itself a positive integer
scaled_index(f, n) ==
  LET k == (n * f.num) \div f.den
  IN  IF k > 0 /\ k * f.den = n * f.num THEN k - 1 ELSE k

\* fractional_block with one level too few
fractional_block_seven(f) == chars[scaled_index(f, Len(chars) - 1) + 1]

\* fractional_block
fractional_block(f) == chars[scaled_index(f, Len(chars)) + 1]

\* draw_column: exact_wall_height
exact_wall_height(H, h) == fraction(H * h.distance.den, h.distance.num)

\* draw_column: truncated_wall_height
truncated_wall_height(H, h) == exact_wall_height(H, h).num \div exact_wall_height(H, h).den

\* draw_column: num_whole_chars
num_whole_chars(H, h, blocky) ==
  LET t == truncated_wall_height(H, h)
  IN  t - (IF blocky THEN 0 ELSE t % 2)

\* draw_column: wall_top
wall_top(H, n) == IntDiv(H - n, 2) - 1

\* draw_column: wall_bottom one row short
wall_bottom_short(top, n) == top + n + 1

\* draw_column: wall_bottom
wall_bottom(top, n) == top + n + 2

\* draw_column: wall_start
wall_start(top, blocky) == top + (IF blocky THEN 0 ELSE 1)

\* draw_column: floor_start with no row left for the bottom cap
floor_start_at_bottom(bottom, blocky) == bottom

\* draw_column: floor_start
floor_start(bottom, blocky) == bottom + (IF blocky THEN 0 ELSE 1)

\* draw_column: wall_char
wall_char(h) == IF h.tx < 100 \/ h.tx > 900 THEN "U+2502" ELSE " "

\* draw_column: block_between, as the rows of the range in order
block_between(lo, hi, H) ==
  LET min == Max(0, lo)
      max == Min(H, hi)
      first == Min(min, max)
  IN  [k \in 1 .. max - first |-> first + k - 1]

\* draw_column: std::ranges::for_each(rows, print(c, invert))
print_rows(rows, c, invert) == [k \in 1 .. Len(rows) |-> [y |-> rows[k], c |-> c, invert |-> invert]]

\* draw_column: fraction
cap_fraction(H, h, n) ==
  LET e == exact_wall_height(H, h)
  IN  fraction(e.num - n * e.den, 2 * e.den)

\* draw_column, as the print_char calls it makes in order
draw_column(H, h, blocky) ==
  LET n == num_whole_chars(H, h, blocky)
      top == wall_top(H, n)
      bottom == wall_bottom(top, n)
      f == cap_fraction(H, h, n)
      caps == IF ~blocky /\ top >= 0
                THEN << [y |-> top, c |-> fractional_block(f), invert |-> FALSE],
                        [y |-> bottom,
                         c |-> fractional_block(fraction(f.den - f.num, f.den)),
                         invert |-> TRUE] >>
                ELSE << >>
  IN  print_rows(block_between(0, top, H), " ", FALSE)
        \o print_rows(block_between(wall_start(top, blocky), bottom, H), wall_char(h), TRUE)
        \o print_rows(block_between(floor_start(bottom, blocky), H, H), ".", FALSE)
        \o caps

\* render / draw_scene: one column of a frame
DrawColumn ==
  /\ draw_pc = "ready"
  /\ writes' = draw_column(screen_height, hit, is_blocky)
  /\ draw_pc' = "drawn"
  /\ UNCHANGED <<playerVars, castVars, screen_height, is_blocky>>

\* event 'h', after which main's loop renders the next frame
ToggleBlocky ==
  /\ draw_pc = "drawn"
  /\ is_blocky' = ~is_blocky
  /\ draw_pc' = "ready"
  /\ UNCHANGED <<playerVars, castVars, screen_height, writes>>

\* ------------------------------------------------------------ specifications

cast_off ==
  /\ ray_dir = vec2(0, 0)
  /\ x = dda_coord(0, fraction(0, 1))
  /\ y = dda_coord(0, fraction(0, 1))
  /\ is_x_step = FALSE
  /\ cast_pc = "off"
  /\ iterations = 0
  /\ path = << >>
  /\ hit = no_hit

draw_off ==
  /\ screen_height = 0
  /\ is_blocky = FALSE
  /\ draw_pc = "off"
  /\ writes = << >>

no_event == [key |-> "none", candidate |-> initial_pos]

\* main: a player{} and the key events that move it
InitPlayer ==
  /\ pos = initial_pos
  /\ forward = initial_forward
  /\ right = initial_right
  /\ keys = 0
  /\ turns = 0
  /\ event = no_event
  /\ cast_off
  /\ draw_off

NextPlayer == \E factor \in {1, -1} : Walk(factor) \/ Strafe(factor) \/ Turn(factor)

SpecPlayer == InitPlayer /\ [][NextPlayer]_vars

\* compute_wall_hit for one column of one pose as draw_scene calls it, and for the
\* directions along the grid axes
InitCast ==
  /\ pos \in cast_positions
  /\ \E o \in cast_orientations : forward = o.forward /\ right = o.right
  /\ keys = 0
  /\ turns = 0
  /\ event = no_event
  /\ \/ ray_dir \in ray_dirs(forward, right)
     \/ forward = initial_forward /\ ray_dir \in axis_rays
  /\ x = dda_start(pos.x, ray_dir.x)
  /\ y = dda_start(pos.y, ray_dir.y)
  /\ is_x_step = FALSE
  /\ cast_pc = "loop"
  /\ iterations = 0
  /\ path = << cell(x, y) >>
  /\ hit = no_hit
  /\ draw_off

NextCast == CastStep \/ CastReturn

SpecCast == InitCast /\ [][NextCast]_vars

\* the wall hits and display heights a column is drawn for
draw_hits == {[distance |-> fraction(n, DistDen), tx |-> t] : n \in 1 .. MaxDist, t \in {0, 500, 950}}

\* draw_scene: draw_column for one column, in both modes
InitDraw ==
  /\ pos = initial_pos
  /\ forward = initial_forward
  /\ right = initial_right
  /\ keys = 0
  /\ turns = 0
  /\ event = no_event
  /\ ray_dir = vec2(0, 0)
  /\ x = dda_coord(0, fraction(0, 1))
  /\ y = dda_coord(0, fraction(0, 1))
  /\ is_x_step = FALSE
  /\ cast_pc = "done"
  /\ iterations = 0
  /\ path = << >>
  /\ hit \in draw_hits
  /\ screen_height \in 1 .. MaxHeight
  /\ is_blocky = FALSE
  /\ draw_pc = "ready"
  /\ writes = << >>

NextDraw == DrawColumn \/ ToggleBlocky

SpecDraw == InitDraw /\ [][NextDraw]_vars

\* ---------------------------------------------------------------- the claims

\* C1: in every state reachable from the initial pose by walk, strafe and turn events the
\* player's position, truncated to a cell, is a cell of the maze that is not a wall.
C1_PositionOpen == in_maze(to_vec2i(pos)) /\ ~is_wall(pos)

\* a walk after a turn has taken the player into another cell
C1_Witness ==
  /\ event.key = "walk"
  /\ turns > 0
  /\ pos = event.candidate
  /\ to_vec2i(pos) # to_vec2i(initial_pos)

\* the rays draw_scene casts for the current pose: compute_wall_hit's second argument
scene_rays == ray_dirs(forward, right)

\* the poses that 'w' and 's' key events alone reach from the initial pose: the player
\* faces along the y axis and has moved by whole multiples of run_speed along the open
\* column x = 5, all of it in exact float arithmetic
reached_by_walking ==
  /\ forward = initial_forward
  /\ right = initial_right
  /\ pos.x = initial_pos.x
  /\ (pos.y - initial_pos.y) % run_speed = 0
  /\ \A r \in Min(ToInt(pos.y), ToInt(initial_pos.y)) .. Max(ToInt(pos.y), ToInt(initial_pos.y)) :
       ~is_wall_i(vec2(ToInt(pos.x), r))

\* C2: from a position in an open cell, cell boundaries included, for a ray direction
\* that line_of_sight produces for the pose, compute_wall_hit returns a distance strictly
\* greater than 0.  Stated for the poses the player reaches by walking alone.
C2_DistancePositive ==
  (cast_pc = "done" /\ reached_by_walking /\ ray_dir \in scene_rays)
    => (hit.distance.den > 0 /\ hit.distance.num > 0)

\* two cells are neighbours along one axis
one_step_apart(a, b) ==
  \/ a.y = b.y /\ Abs(a.x - b.x) = 1
  \/ a.x = b.x /\ Abs(a.y - b.y) = 1

\* C3: cast_ray, started in an open cell of the closed maze, looks up only cells of the
\* 21 x 20 grid, moves by exactly one cell along exactly one axis in each iteration, and
\* ends after at most maze_width + maze_height iterations, at the first wall cell it looks up.
C3_CastReachesWallInGrid ==
  cast_pc \in {"loop", "done"} =>
    /\ Len(path) = iterations + 1
    /\ iterations <= maze_width + maze_height
    /\ path[Len(path)] = cell(x, y)
    /\ \A k \in 1 .. Len(path) : in_maze(path[k])
    /\ \A k \in 1 .. Len(path) - 1 : one_step_apart(path[k], path[k + 1]) /\ ~is_wall_i(path[k])
    /\ cast_pc = "done" => is_wall_i(path[Len(path)])

\* a cast that returned after ten or more iterations, having stepped along both axes
C3_Witness ==
  /\ cast_pc = "done"
  /\ iterations >= 10
  /\ path[1].x # path[Len(path)].x
  /\ path[1].y # path[Len(path)].y

\* C4: a walk or strafe whose candidate position is a wall cell changes neither the
\* position nor the forward and right vectors.
C4_RejectedMoveKeepsPose ==
  [][(event'.key \in {"walk", "strafe"} /\ is_wall(event'.candidate))
       => (pos' = pos /\ forward' = forward /\ right' = right)]_vars

\* a walk into a wall has just been rejected
C4_Witness ==
  /\ event.key = "walk"
  /\ is_wall(event.candidate)
  /\ pos # event.candidate

\* C5: in every reachable state, for every display width W and every column i in [0, W),
\* both components of the ray direction line_of_sight(i / (W - 1)) are nonzero.
C5_NoZeroComponent ==
  \A W \in widths : \A i \in 0 .. W - 1 :
    LET d == line_of_sight(forward, right, normalized(i, W))
    IN  d.x # 0 /\ d.y # 0

\* the coordinate of p along the axis of the deciding step, and along the other axis
along(p, is_x) == IF is_x THEN p.x ELSE p.y

across(p, is_x) == IF is_x THEN p.y ELSE p.x

\* C6: the distance compute_wall_hit returns is the ray parameter t at which
\* position + t * direction lies on the near face of the wall cell cast_ray ended in, no
\* cell looked up before it being a wall; for a cast along a grid axis with a unit
\* direction t is the coordinate difference between that face and the position, and
\* surface_offset is the fractional part of the position's other coordinate.
C6_HitOnNearFace ==
  cast_pc = "done" =>
    LET c == cell(x, y)
        t == hit.distance
        face == (along(c, is_x_step) + (IF along(ray_dir, is_x_step) < 0 THEN 1 ELSE 0)) * Scale
        side == across(c, is_x_step) * Scale
    IN  /\ is_wall_i(c)
        /\ \A k \in 1 .. Len(path) - 1 : ~is_wall_i(path[k])
        /\ t.den > 0
        /\ t.num >= 0
        /\ along(pos, is_x_step) * t.den + t.num * along(ray_dir, is_x_step) = face * t.den
        /\ across(pos, is_x_step) * t.den + t.num * across(ray_dir, is_x_step) >= side * t.den
        /\ across(pos, is_x_step) * t.den + t.num * across(ray_dir, is_x_step)
             <= (side + Scale) * t.den
        /\ (across(ray_dir, is_x_step) = 0 /\ Abs(along(ray_dir, is_x_step)) = Scale) =>
             /\ t.num * Scale = t.den * Abs(face - along(pos, is_x_step))
             /\ hit.tx = across(pos, is_x_step) % Scale

\* a hit found by a step in the negative x direction, after several iterations
C6_Witness ==
  /\ cast_pc = "done"
  /\ is_x_step
  /\ ray_dir.x < 0
  /\ ray_dir.y # 0
  /\ iterations >= 4
  /\ hit.distance.num > 0

\* truncate(display_height / distance)
truncated_height == (screen_height * hit.distance.den) \div hit.distance.num

\* display_height / distance is an even integer
height_is_even_integer ==
  /\ truncated_height * hit.distance.num = screen_height * hit.distance.den
  /\ truncated_height % 2 = 0

\* the writes of a column that go to row r
writes_to(w, r) == {k \in 1 .. Len(w) : w[k].y = r}

\* what a column of writes leaves in row r of the display
shown(w, r) == LET k == CHOOSE k \in writes_to(w, r) : \A j \in writes_to(w, r) : j <= k
               IN  <<w[k].c, w[k].invert>>

inverted_rows(w) == {w[k].y : k \in {j \in 1 .. Len(w) : w[j].invert}}

\* C7 as stated: without smoothing, when the wall fits, the block of inverted rows has
\* truncate(display_height / distance) rounded to even rows.
C7_Original ==
  (draw_pc = "drawn" /\ is_blocky /\ truncated_height + 2 <= screen_height) =>
    Cardinality(inverted_rows(writes)) = truncated_height - (truncated_height % 2)

\* C7 amended: without smoothing, when truncate(display_height / distance) + 2 rows fit,
\* draw_column writes every row once, top to bottom: blank rows, then one contiguous block
\* of truncate(display_height / distance) + 2 inverted wall rows, then dotted rows.
C7_BlockyWallRows ==
  (draw_pc = "drawn" /\ is_blocky /\ truncated_height + 2 <= screen_height) =>
    LET top == (screen_height - truncated_height) \div 2 - 1
        below == top + truncated_height + 2
    IN  /\ Len(writes) = screen_height
        /\ \A k \in 1 .. Len(writes) : writes[k].y = k - 1
        /\ \A k \in 1 .. Len(writes) :
             /\ writes[k].y < top => writes[k] = [y |-> k - 1, c |-> " ", invert |-> FALSE]
             /\ writes[k].y \in top .. below - 1 =>
                  writes[k] = [y |-> k - 1, c |-> wall_char(hit), invert |-> TRUE]
             /\ writes[k].y >= below => writes[k] = [y |-> k - 1, c |-> ".", invert |-> FALSE]
        /\ inverted_rows(writes) = top .. below - 1
        /\ Cardinality(inverted_rows(writes)) = truncated_height + 2

\* a wall of odd truncated height drawn without smoothing, with ceiling and floor rows
C7_Witness ==
  /\ draw_pc = "drawn"
  /\ is_blocky
  /\ truncated_height >= 3
  /\ truncated_height % 2 = 1
  /\ truncated_height + 4 <= screen_height

\* the glyphs of fractional_block's table that fill a part of a cell
partial_blocks == {chars[k] : k \in 2 .. Len(chars)}

C9_EveryRowOnce ==
  draw_pc = "drawn" => \A r \in 0 .. screen_height - 1 : Cardinality(writes_to(writes, r)) = 1

\* a smoothed column with partial-block caps, wall rows, ceiling and floor
C9_Witness ==
  /\ draw_pc = "drawn"
  /\ ~is_blocky
  /\ \E k \in 1 .. Len(writes) : writes[k].c \in partial_blocks /\ ~writes[k].invert
  /\ \E k \in 1 .. Len(writes) : writes[k].c = "."
  /\ \E k \in 1 .. Len(writes) : writes[k].c = " " /\ writes[k].y = 0

\* C10: every write of draw_column, the two cap writes included, goes to a row r with
\* 0 <= r < display_height.
C10_WritesOnScreen ==
  draw_pc = "drawn" => \A k \in 1 .. Len(writes) : writes[k].y \in 0 .. screen_height - 1

=============================================================================
